---- MODULE Spec2Model ----
(***************************************************************************)
(* Winsper: the recording / transcription orchestration.                   *)
(*                                                                         *)
(* The hotkey thread toggles RecordingState.is_recording and spawns one    *)
(* thread per start (start_audio_recording) and one per stop               *)
(* (stop_audio_and_transcribe).  The threads share AudioContext behind a   *)
(* mutex and WhisperState behind a second mutex; set_active_model is the   *)
(* command the settings window invokes.  Every emitted event is recorded   *)
(* in `events`, tagged with the session (the ordinal of the start toggle)  *)
(* it was emitted for.                                                     *)
(***************************************************************************)
EXTENDS Integers, Sequences, FiniteSets, TLC

\* Bounds of the exploration.
MaxToggles == 3
MaxCallbacks == 1
MaxLoads == 2
MaxAltPresses == 1
MaxLen == 3
FullScale == 2

MaxSessions == (MaxToggles + 1) \div 2
Sessions == 1..MaxSessions

\* Model files the frontend can ask for; the second one does not exist.
Paths == {"base.bin", "missing.bin"}
PathValid(p) == p # "missing.bin"
NoModel == "none"

\* The sample rate of the default input config the stream is built with,
\* and the rate Whisper expects.
CaptureRate == 48000
WhisperRate == 16000

\* The text the model produces for a buffer, after trim(): nothing for an
\* empty recording.
Transcript(samples) == IF samples = <<>> THEN "" ELSE "hello"

VARIABLES
    is_recording,   \* RecordingState.is_recording
    presses,        \* Right-Ctrl key-downs handled so far
    session,        \* sessions started so far (ordinal of the current one)
    cap,            \* cap[s]: position of the thread start_audio_recording spawned
    audio,          \* AudioContext: [stream, buffer]; stream 0 is None
    callbacks,      \* input callbacks delivered so far
    wk,             \* wk[s]: the thread stop_audio_and_transcribe spawned
    ws,             \* WhisperState: [ctx, model_path]
    ws_lock,        \* holder of the WhisperState mutex: 0 free, -1 the command, s a worker
    ld,             \* the set_active_model command in progress: [pc, path]
    replies,        \* results set_active_model has returned, in order
    events,         \* events emitted, in order
    clipboard,      \* clipboard writes attempted: [sess, text, ok]
    pastes,         \* sessions a Ctrl+V was simulated for
    inferences,     \* sessions ctx.full() was invoked for
    resampler,      \* the resampling call in progress: [pc, samples, rate, target, out]
    overlay,        \* the Overlay component: [state, errorMessage, pending]
    app             \* the App component: activity log and handleLoad in progress

\* The state outside the recording / transcription threads.
others == <<resampler, overlay, app>>

vars == <<is_recording, presses, session, cap, audio, callbacks, wk, ws,
          ws_lock, ld, replies, events, clipboard, pastes, inferences, others>>

Event(n, s, t) == [name |-> n, sess |-> s, text |-> t]

NoResult == [kind |-> "none", text |-> ""]
IdleWorker == [pc |-> "none", buffer |-> <<>>, result |-> NoResult]
NoEvent == [name |-> "none", sess |-> 0, text |-> ""]
InitOverlay == [state |-> "recording", errorMessage |-> "", pending |-> NoEvent]
InitApp ==
    [activities |-> <<>>, activityId |-> 0, loadingModel |-> "null",
     models |-> NoModel, pc |-> "idle", modelId |-> NoModel, before |-> NoModel,
     loads |-> 0]
IdleResampler == [pc |-> "idle", samples |-> <<>>, rate |-> 0, target |-> 0, out |-> <<>>]

Init ==
    /\ is_recording = FALSE
    /\ presses = 0
    /\ session = 0
    /\ cap = [s \in Sessions |-> "none"]
    /\ audio = [stream |-> 0, buffer |-> <<>>]
    /\ callbacks = 0
    /\ wk = [s \in Sessions |-> IdleWorker]
    /\ ws = [ctx |-> NoModel, model_path |-> NoModel]
    /\ ws_lock = 0
    /\ ld = [pc |-> "idle", path |-> NoModel]
    /\ replies = <<>>
    /\ events = <<>>
    /\ clipboard = {}
    /\ pastes = {}
    /\ inferences = {}
    /\ resampler = IdleResampler
    /\ overlay = InitOverlay
    /\ app = InitApp

(***************************************************************************)
(* The hotkey callback (rdev listen, Key::ControlRight key-down).          *)
(***************************************************************************)

\* Mutant: the callback waits for the WhisperState mutex before it starts.
hotkey_start_locking ==
    /\ presses < MaxToggles
    /\ ~is_recording
    /\ ws_lock = 0
    /\ is_recording' = TRUE
    /\ presses' = presses + 1
    /\ session' = session + 1
    /\ events' = Append(events, Event("recording_started", session + 1, ""))
    /\ cap' = [cap EXCEPT ![session + 1] = "spawned"]
    /\ UNCHANGED <<audio, callbacks, wk, ws, ws_lock, ld, replies, clipboard,
                   pastes, inferences, others>>

\* is_recording was false: store true, emit recording_started, spawn the
\* capture thread (start_audio_recording returns as soon as it is spawned).
hotkey_start ==
    /\ presses < MaxToggles
    /\ ~is_recording
    /\ is_recording' = TRUE
    /\ presses' = presses + 1
    /\ session' = session + 1
    /\ events' = Append(events, Event("recording_started", session + 1, ""))
    /\ cap' = [cap EXCEPT ![session + 1] = "spawned"]
    /\ UNCHANGED <<audio, callbacks, wk, ws, ws_lock, ld, replies, clipboard,
                   pastes, inferences, others>>

\* is_recording was true: store false, emit recording_stopped, spawn the
\* worker thread (stop_audio_and_transcribe returns as soon as it is spawned).
hotkey_stop ==
    /\ presses < MaxToggles
    /\ is_recording
    /\ is_recording' = FALSE
    /\ presses' = presses + 1
    /\ events' = Append(events, Event("recording_stopped", session, ""))
    /\ wk' = [wk EXCEPT ![session].pc = "spawned"]
    /\ UNCHANGED <<session, cap, audio, callbacks, ws, ws_lock, ld, replies,
                   clipboard, pastes, inferences, others>>

start_hotkey_listener == hotkey_start \/ hotkey_stop

(***************************************************************************)
(* The capture thread of session s.                                        *)
(***************************************************************************)

\* default_input_device / default_input_config / build_input_stream / play:
\* each is .expect()ed, so a missing device or a failed build panics the
\* thread.  Otherwise the stream is playing and its callback can fire.
start_audio_recording ==
    \E s \in Sessions, ok \in BOOLEAN :
        /\ cap[s] = "spawned"
        /\ cap' = [cap EXCEPT ![s] = IF ok THEN "playing" ELSE "panicked"]
        /\ UNCHANGED <<is_recording, presses, session, audio, callbacks, wk, ws,
                       ws_lock, ld, replies, events, clipboard, pastes, inferences, others>>

\* ctx.stream = Some(stream): the thread's last statement; a stream already
\* stored is dropped by the assignment.
build_input_stream ==
    \E s \in Sessions :
        /\ cap[s] = "playing"
        /\ cap' = [cap EXCEPT ![s] = "stored"]
        /\ audio' = [audio EXCEPT !.stream = s]
        /\ UNCHANGED <<is_recording, presses, session, callbacks, wk, ws, ws_lock,
                       ld, replies, events, clipboard, pastes, inferences, others>>

\* The stream of session s delivers callbacks: it was played and has not
\* been dropped (taken out of ctx.stream or replaced there).
StreamAlive(s) ==
    \/ cap[s] = "playing"
    \/ cap[s] = "stored" /\ audio.stream = s

\* The data callback: push the first channel of each frame to ctx.buffer,
\* emit audio_level.  A sample is represented by the session of its stream.
input_callback ==
    \E s \in Sessions :
        /\ StreamAlive(s)
        /\ callbacks < MaxCallbacks
        /\ callbacks' = callbacks + 1
        /\ audio' = [audio EXCEPT !.buffer = Append(@, s)]
        /\ events' = Append(events, Event("audio_level", s, ""))
        /\ UNCHANGED <<is_recording, presses, session, cap, wk, ws, ws_lock, ld,
                       replies, clipboard, pastes, inferences, others>>

(***************************************************************************)
(* The worker thread of session s (stop_audio_and_transcribe).             *)
(***************************************************************************)

\* Under the AudioContext mutex: take and drop the stream, copy the buffer,
\* clear it.  The thread then goes on to Whisper, announcing it with
\* transcription_started.
worker_take ==
    \E s \in Sessions :
        /\ wk[s].pc = "spawned"
        /\ wk' = [wk EXCEPT ![s].pc = "started", ![s].buffer = audio.buffer]
        /\ audio' = [stream |-> 0, buffer |-> <<>>]
        /\ events' = Append(events, Event("transcription_started", s, ""))
        /\ UNCHANGED <<is_recording, presses, session, cap, callbacks, ws, ws_lock,
                       ld, replies, clipboard, pastes, inferences, others>>

\* Mutant: the loaded-context check is skipped, inference runs on whatever is there.
run_whisper_lock_unchecked ==
    \E s \in Sessions :
        /\ wk[s].pc = "started"
        /\ ws_lock = 0
        /\ ws_lock' = s
        /\ wk' = [wk EXCEPT ![s].pc = "locked"]
        /\ UNCHANGED <<is_recording, presses, session, cap, audio, callbacks, ws,
                       ld, replies, events, clipboard, pastes, inferences, others>>

\* run_whisper_on_buffer, first half: lock WhisperState and ensure it has a
\* loaded context.  Without one the call returns the not-loaded error at
\* once (the guard is released on return); with one the guard is kept for
\* the inference.
run_whisper_lock ==
    \E s \in Sessions :
        /\ wk[s].pc = "started"
        /\ ws_lock = 0
        /\ IF ws.ctx = NoModel
           THEN /\ wk' = [wk EXCEPT ![s].pc = "ran",
                                    ![s].result = [kind |-> "not_loaded", text |-> ""]]
                /\ UNCHANGED ws_lock
           ELSE /\ wk' = [wk EXCEPT ![s].pc = "locked"]
                /\ ws_lock' = s
        /\ UNCHANGED <<is_recording, presses, session, cap, audio, callbacks, ws,
                       ld, replies, events, clipboard, pastes, inferences, others>>

\* run_whisper_on_buffer, second half: ctx.full(params, samples) either
\* fails (.ok()? gives None) or yields segments, concatenated and trimmed.
run_whisper_full ==
    \E s \in Sessions, failed \in BOOLEAN :
        /\ wk[s].pc = "locked"
        /\ ws_lock = s
        /\ inferences' = inferences \cup {s}
        /\ wk' = [wk EXCEPT ![s].pc = "ran",
                             ![s].result = IF failed
                                           THEN [kind |-> "fail", text |-> ""]
                                           ELSE [kind |-> "text", text |-> Transcript(wk[s].buffer)]]
        /\ ws_lock' = 0
        /\ UNCHANGED <<is_recording, presses, session, cap, audio, callbacks, ws,
                       ld, replies, events, clipboard, pastes, others>>

\* copy_to_clipboard_and_paste: the clipboard write may fail and its result
\* is discarded; Ctrl+V is simulated in every case.
copy_to_clipboard_and_paste(s, text, ok) ==
    /\ clipboard' = clipboard \cup {[sess |-> s, text |-> text, ok |-> ok]}
    /\ pastes' = pastes \cup {s}

\* Some(t): clipboard + paste, then transcription_done with the text.
worker_done ==
    \E s \in Sessions, ok \in BOOLEAN :
        /\ wk[s].pc = "ran"
        /\ wk[s].result.kind = "text"
        /\ copy_to_clipboard_and_paste(s, wk[s].result.text, ok)
        /\ events' = Append(events, Event("transcription_done", s, wk[s].result.text))
        /\ wk' = [wk EXCEPT ![s].pc = "done", ![s].buffer = <<>>]
        /\ UNCHANGED <<is_recording, presses, session, cap, audio, callbacks, ws,
                       ws_lock, ld, replies, inferences, others>>

\* None: transcription_error.
worker_error ==
    \E s \in Sessions :
        /\ wk[s].pc = "ran"
        /\ wk[s].result.kind = "fail"
        /\ events' = Append(events, Event("transcription_error", s, ""))
        /\ wk' = [wk EXCEPT ![s].pc = "done", ![s].buffer = <<>>]
        /\ UNCHANGED <<is_recording, presses, session, cap, audio, callbacks, ws,
                       ws_lock, ld, replies, clipboard, pastes, inferences, others>>

\* Mutant: the missing model is reported as a generic transcription error.
worker_no_model_as_error ==
    \E s \in Sessions :
        /\ wk[s].pc = "ran"
        /\ wk[s].result.kind = "not_loaded"
        /\ events' = Append(events, Event("transcription_error", s, ""))
        /\ wk' = [wk EXCEPT ![s].pc = "done", ![s].buffer = <<>>]
        /\ UNCHANGED <<is_recording, presses, session, cap, audio, callbacks, ws,
                       ws_lock, ld, replies, clipboard, pastes, inferences, others>>

\* The not-loaded error is reported as no_model_selected; nothing is dispatched.
worker_no_model ==
    \E s \in Sessions :
        /\ wk[s].pc = "ran"
        /\ wk[s].result.kind = "not_loaded"
        /\ events' = Append(events, Event("no_model_selected", s, ""))
        /\ wk' = [wk EXCEPT ![s].pc = "done", ![s].buffer = <<>>]
        /\ UNCHANGED <<is_recording, presses, session, cap, audio, callbacks, ws,
                       ws_lock, ld, replies, clipboard, pastes, inferences, others>>

(***************************************************************************)
(* The set_active_model command.                                           *)
(***************************************************************************)

\* Mutant: the old context is released before the new one is created.
set_active_model_drop_first ==
    \E p \in Paths :
        /\ ld.pc = "idle"
        /\ Len(replies) < MaxLoads
        /\ ws_lock = 0
        /\ ws' = [ctx |-> NoModel, model_path |-> NoModel]
        /\ IF PathValid(p)
           THEN /\ ld' = [pc |-> "created", path |-> p]
                /\ ws_lock' = -1
                /\ UNCHANGED replies
           ELSE /\ UNCHANGED ld
                /\ replies' = Append(replies, FALSE)
                /\ UNCHANGED ws_lock
        /\ UNCHANGED <<is_recording, presses, session, cap, audio, callbacks, wk,
                       events, clipboard, pastes, inferences, others>>

\* Mutant: the command does not take the WhisperState mutex.
set_active_model_unlocked ==
    \E p \in Paths :
        /\ ld.pc = "idle"
        /\ Len(replies) < MaxLoads
        /\ IF PathValid(p)
           THEN /\ ld' = [pc |-> "created", path |-> p]
                /\ UNCHANGED replies
           ELSE /\ UNCHANGED ld
                /\ replies' = Append(replies, FALSE)
        /\ UNCHANGED <<is_recording, presses, session, cap, audio, callbacks, wk, ws,
                       ws_lock, events, clipboard, pastes, inferences, others>>

\* state.lock(), then WhisperContext::new(&model_path).map_err(..)?: on
\* failure the command returns Err at once, the guard is dropped and
\* WhisperState is as it was; on success the command holds the new context
\* and the guard.
set_active_model ==
    \E p \in Paths :
        /\ ld.pc = "idle"
        /\ Len(replies) < MaxLoads
        /\ ws_lock = 0
        /\ IF PathValid(p)
           THEN /\ ld' = [pc |-> "created", path |-> p]
                /\ ws_lock' = -1
                /\ UNCHANGED replies
           ELSE /\ UNCHANGED ld
                /\ replies' = Append(replies, FALSE)
                /\ UNCHANGED ws_lock
        /\ UNCHANGED <<is_recording, presses, session, cap, audio, callbacks, wk, ws,
                       events, clipboard, pastes, inferences, others>>

\* Mutant: selecting the model that is already active unloads it.
set_active_model_store_toggle ==
    /\ ld.pc = "created"
    /\ ws' = IF ws.model_path = ld.path
             THEN [ctx |-> NoModel, model_path |-> NoModel]
             ELSE [ctx |-> ld.path, model_path |-> ld.path]
    /\ ld' = [pc |-> "idle", path |-> NoModel]
    /\ ws_lock' = 0
    /\ replies' = Append(replies, TRUE)
    /\ UNCHANGED <<is_recording, presses, session, cap, audio, callbacks, wk,
                   events, clipboard, pastes, inferences, others>>

\* ws.ctx = Some(ctx); ws.model_path = Some(model_path); Ok(()).
set_active_model_store ==
    /\ ld.pc = "created"
    /\ ws' = [ctx |-> ld.path, model_path |-> ld.path]
    /\ ld' = [pc |-> "idle", path |-> NoModel]
    /\ ws_lock' = 0
    /\ replies' = Append(replies, TRUE)
    /\ UNCHANGED <<is_recording, presses, session, cap, audio, callbacks, wk,
                   events, clipboard, pastes, inferences, others>>

Next ==
    \/ start_hotkey_listener
    \/ start_audio_recording
    \/ build_input_stream
    \/ input_callback
    \/ worker_take
    \/ run_whisper_lock
    \/ run_whisper_full
    \/ worker_done
    \/ worker_error
    \/ worker_no_model
    \/ set_active_model
    \/ set_active_model_store

Spec == Init /\ [][Next]_vars

(***************************************************************************)
(* Faults.  The worker closure is the body of std::thread::spawn with no   *)
(* catch_unwind around it and no JoinHandle kept: a panic in the steps     *)
(* after the buffer was taken (pre-processing, dispatch) unwinds the       *)
(* thread and nothing further runs in it.  The stream's error callback is  *)
(* eprintln!("Audio input error") and nothing else; the failed device      *)
(* delivers no more data, the dead stream stays in ctx.stream.             *)
(***************************************************************************)

worker_panic ==
    \E s \in Sessions :
        /\ wk[s].pc \in {"started", "ran"}
        /\ wk' = [wk EXCEPT ![s].pc = "panicked", ![s].buffer = <<>>]
        /\ UNCHANGED <<is_recording, presses, session, cap, audio, callbacks, ws,
                       ws_lock, ld, replies, events, clipboard, pastes, inferences, others>>

stream_error ==
    \E s \in Sessions :
        /\ cap[s] = "stored"
        /\ audio.stream = s
        /\ cap' = [cap EXCEPT ![s] = "failed"]
        /\ UNCHANGED <<is_recording, presses, session, audio, callbacks, wk, ws,
                       ws_lock, ld, replies, events, clipboard, pastes, inferences, others>>

(***************************************************************************)
(* The secondary key of the hotkey callback (Key::Alt key-down): it emits  *)
(* hotkey_event for the test panel of the UI and does nothing else.        *)
(***************************************************************************)

AltPresses == Len(SelectSeq(events, LAMBDA e : e.name = "hotkey_event"))

\* Mutant: the secondary key is wired to the recording toggle as well.
hotkey_alt_toggles ==
    /\ AltPresses < MaxAltPresses
    /\ is_recording' = ~is_recording
    /\ events' = Append(events, Event("hotkey_event", 0, "RightAlt"))
    /\ UNCHANGED <<presses, session, cap, audio, callbacks, wk, ws, ws_lock, ld,
                   replies, clipboard, pastes, inferences, others>>

hotkey_alt ==
    /\ AltPresses < MaxAltPresses
    /\ events' = Append(events, Event("hotkey_event", 0, "RightAlt"))
    /\ UNCHANGED <<is_recording, presses, session, cap, audio, callbacks, wk, ws,
                   ws_lock, ld, replies, clipboard, pastes, inferences, others>>

KeyNext == Next \/ hotkey_alt

KeySpec == Init /\ [][KeyNext]_vars

(***************************************************************************)
(* The level meter.  Here a sample is its value, in units of 1/FullScale:  *)
(* to_f32() of an I16 or U16 sample and a nominal F32 sample lie between   *)
(* -FullScale and FullScale.  The data callback pushes the first channel   *)
(* of each frame of its chunk and emits compute_rms of the whole buffer.   *)
(* The level is kept in the same unit, rounded up, so that a level above   *)
(* full scale cannot hide in the rounding.                                 *)
(***************************************************************************)

SampleValues == (0 - FullScale)..FullScale

RECURSIVE SumSq(_)
SumSq(samples) ==
    IF samples = <<>> THEN 0
    ELSE Head(samples) * Head(samples) + SumSq(Tail(samples))

\* The least k with k * k >= sum_sq / len.
SqrtOfMean(sum_sq, len) ==
    CHOOSE k \in 0..sum_sq :
        /\ k * k * len >= sum_sq
        /\ \A j \in 0..(k - 1) : j * j * len < sum_sq

\* Mutant: the sum of squares is not divided by the number of samples.
compute_rms_sum(samples) ==
    IF samples = <<>> THEN 0
    ELSE SqrtOfMean(SumSq(samples), 1)

compute_rms(samples) ==
    IF samples = <<>> THEN 0
    ELSE SqrtOfMean(SumSq(samples), Len(samples))

Chunks == UNION {[1..n -> SampleValues] : n \in 1..2}

level_callback ==
    \E s \in Sessions, data \in Chunks :
        /\ StreamAlive(s)
        /\ Len(audio.buffer) + Len(data) <= MaxLen
        /\ audio' = [audio EXCEPT !.buffer = @ \o data]
        /\ events' = Append(events,
                            Event("audio_level", s, compute_rms(audio.buffer \o data)))
        /\ UNCHANGED <<is_recording, presses, session, cap, callbacks, wk, ws,
                       ws_lock, ld, replies, clipboard, pastes, inferences, others>>

LevelNext ==
    \/ hotkey_start
    \/ start_audio_recording
    \/ build_input_stream
    \/ level_callback

LevelSpec == Init /\ [][LevelNext]_vars

FaultNext == Next \/ worker_panic \/ stream_error

FaultSpec == Init /\ [][FaultNext]_vars

(***************************************************************************)
(* The resampler: resample(samples, sourceRate, targetRate).  Output       *)
(* sample i is read at source position i * sourceRate / targetRate,        *)
(* interpolated between the two neighbouring input samples; there are      *)
(* round(n * targetRate / sourceRate) output samples.                      *)
(***************************************************************************)

Rates == {8000, 16000, 44100, 48000}

\* Mutant: the output length is rounded down.
OutLenFloor(n, rate, target) == (n * target) \div rate

\* round(n * target / rate), halves rounded up.
OutLen(n, rate, target) == (2 * n * target + rate) \div (2 * rate)

Min(a, b) == IF a <= b THEN a ELSE b

\* Output sample i (from 0) of samples at rate `rate`, at rate `target`.
Interpolate(samples, rate, target, i) ==
    LET pos  == (i * rate) \div target
        frac == (i * rate) % target
        a    == samples[Min(pos + 1, Len(samples))]
        b    == samples[Min(pos + 2, Len(samples))]
    IN  (a * (target - frac) + b * frac) \div target

\* Mutant: every output sample is read one input sample late.
resample_late(samples, rate, target) ==
    [i \in 1..OutLen(Len(samples), rate, target) |->
        Interpolate(samples, rate, target, i)]

resample(samples, rate, target) ==
    [i \in 1..OutLen(Len(samples), rate, target) |->
        Interpolate(samples, rate, target, i - 1)]

Inputs == UNION {[1..n -> SampleValues] : n \in 0..MaxLen}

\* The call: any mono buffer, any source rate, to 16 kHz or to its own rate.
resample_call ==
    \E x \in Inputs, r \in Rates, same \in BOOLEAN :
      LET t == IF same THEN r ELSE WhisperRate IN
        /\ resampler.pc = "idle"
        /\ resampler' = [pc |-> "called", samples |-> x, rate |-> r, target |-> t,
                         out |-> <<>>]
        /\ UNCHANGED <<is_recording, presses, session, cap, audio, callbacks, wk, ws,
                       ws_lock, ld, replies, events, clipboard, pastes, inferences,
                       overlay, app>>

resample_return ==
    /\ resampler.pc = "called"
    /\ resampler' = [resampler EXCEPT
                        !.pc = "returned",
                        !.out = resample(resampler.samples, resampler.rate,
                                         resampler.target)]
    /\ UNCHANGED <<is_recording, presses, session, cap, audio, callbacks, wk, ws,
                   ws_lock, ld, replies, events, clipboard, pastes, inferences,
                   overlay, app>>

ResampleNext == resample_call \/ resample_return

ResampleSpec == Init /\ [][ResampleNext]_vars

(***************************************************************************)
(* The Overlay component.  Its listeners are registered twice for          *)
(* transcription_started, transcription_done and transcription_error: a    *)
(* global listener and a listener of the overlay window; an event reaches  *)
(* the global listener first and is then pending for the window's.         *)
(***************************************************************************)

MaxDeliveries == 3

\* The global listeners.
OnEvent(ov, e) ==
    CASE e.name = "recording_started"
            -> [ov EXCEPT !.state = "recording", !.errorMessage = ""]
      [] e.name = "transcription_started"
            -> [ov EXCEPT !.state = "transcribing"]
      [] e.name = "transcription_done"
            -> [ov EXCEPT !.state = "idle"]
      [] e.name = "transcription_error"
            -> [ov EXCEPT !.state = "error", !.errorMessage = e.text]
      [] e.name = "no_model_selected"
            -> [ov EXCEPT !.state = "no_model"]
      [] OTHER -> ov

WindowEvents == {"transcription_started", "transcription_done", "transcription_error"}

\* Mutant: the window's listener of transcription_done brings the recording view back.
OnWindowEventReset(ov, e) ==
    CASE e.name = "transcription_started"
            -> [ov EXCEPT !.state = "transcribing"]
      [] e.name = "transcription_done"
            -> [ov EXCEPT !.state = "recording"]
      [] e.name = "transcription_error"
            -> [ov EXCEPT !.state = "error", !.errorMessage = e.text]
      [] OTHER -> ov

\* The listeners of the overlay window.
OnWindowEvent(ov, e) ==
    CASE e.name = "transcription_started"
            -> [ov EXCEPT !.state = "transcribing"]
      [] e.name = "transcription_done"
            -> [ov EXCEPT !.state = "idle"]
      [] e.name = "transcription_error"
            -> [ov EXCEPT !.state = "error", !.errorMessage = e.text]
      [] OTHER -> ov

\* What the backend can send to the overlay.
Deliverable ==
    {Event(n, 0, "") : n \in {"recording_started", "recording_stopped",
                              "transcription_started", "transcription_done",
                              "no_model_selected", "audio_level"}}
        \cup {Event("transcription_error", 0, m) : m \in {"failed", "timeout"}}

\* Mutant: recording_stopped already switches the overlay to transcribing.
overlay_global_eager ==
    \E e \in Deliverable :
        /\ overlay.pending = NoEvent
        /\ Len(events) < MaxDeliveries
        /\ events' = Append(events, e)
        /\ overlay' = [(IF e.name = "recording_stopped"
                           THEN [overlay EXCEPT !.state = "transcribing"]
                           ELSE OnEvent(overlay, e))
                         EXCEPT !.pending = IF e.name \in WindowEvents THEN e ELSE NoEvent]
        /\ UNCHANGED <<is_recording, presses, session, cap, audio, callbacks, wk, ws,
                       ws_lock, ld, replies, clipboard, pastes, inferences, resampler,
                       app>>

\* An event is delivered: the global listener runs.
overlay_global ==
    \E e \in Deliverable :
        /\ overlay.pending = NoEvent
        /\ Len(events) < MaxDeliveries
        /\ events' = Append(events, e)
        /\ overlay' = [OnEvent(overlay, e)
                         EXCEPT !.pending = IF e.name \in WindowEvents THEN e ELSE NoEvent]
        /\ UNCHANGED <<is_recording, presses, session, cap, audio, callbacks, wk, ws,
                       ws_lock, ld, replies, clipboard, pastes, inferences, resampler,
                       app>>

\* The same event reaches the window's listener.
overlay_window ==
    /\ overlay.pending # NoEvent
    /\ overlay' = [OnWindowEvent(overlay, overlay.pending) EXCEPT !.pending = NoEvent]
    /\ UNCHANGED <<is_recording, presses, session, cap, audio, callbacks, wk, ws,
                   ws_lock, ld, replies, events, clipboard, pastes, inferences,
                   resampler, app>>

OverlayNext == overlay_global \/ overlay_window

OverlaySpec == Init /\ [][OverlayNext]_vars

\* The overlay after the events of q were delivered to it, in order.
RECURSIVE OverlayAfter(_)
OverlayAfter(q) ==
    IF q = <<>> THEN InitOverlay
    ELSE LET e == q[Len(q)]
         IN  OnWindowEvent(OnEvent(OverlayAfter(SubSeq(q, 1, Len(q) - 1)), e), e)

(***************************************************************************)
(* The App component: the activity log (addActivity) and handleLoad.       *)
(* `models` is the id of the model the list shows as active.               *)
(***************************************************************************)

MaxAdds == 52

\* acts.slice(0, 49)
Kept == 49

\* Mutant: the list is cut after the new entry was counted in.
addActivitySlice50(a, type) ==
    [a EXCEPT !.activityId = a.activityId + 1,
              !.activities = <<[id |-> a.activityId + 1, type |-> type]>>
                                \o SubSeq(a.activities, 1, Min(Kept + 1, Len(a.activities)))]

addActivity(a, type) ==
    [a EXCEPT !.activityId = a.activityId + 1,
              !.activities = <<[id |-> a.activityId + 1, type |-> type]>>
                                \o SubSeq(a.activities, 1, Min(Kept, Len(a.activities)))]

\* A listener of recording_started / recording_stopped logs an activity.
activity_event ==
    /\ app.activityId < MaxAdds
    /\ app' = addActivity(app, "info")
    /\ UNCHANGED <<is_recording, presses, session, cap, audio, callbacks, wk, ws,
                   ws_lock, ld, replies, events, clipboard, pastes, inferences,
                   resampler, overlay>>

\* A Select button is clicked (enabled while loadingModel is null):
\* setLoadingModel(modelId), invoke("load_model").
handleLoad ==
    \E id \in Paths :
        /\ app.pc = "idle"
        /\ app.loadingModel = "null"
        /\ app.loads < MaxLoads
        /\ app.activityId < MaxAdds
        /\ app' = [app EXCEPT !.pc = "invoked", !.loadingModel = id, !.modelId = id,
                              !.before = app.models, !.loads = app.loads + 1]
        /\ UNCHANGED <<is_recording, presses, session, cap, audio, callbacks, wk, ws,
                       ws_lock, ld, replies, events, clipboard, pastes, inferences,
                       resampler, overlay>>

\* The command resolves or rejects.
load_model_reply ==
    \E ok \in BOOLEAN :
        /\ app.pc = "invoked"
        /\ app' = [app EXCEPT !.pc = IF ok THEN "refreshing" ELSE "caught"]
        /\ UNCHANGED <<is_recording, presses, session, cap, audio, callbacks, wk, ws,
                       ws_lock, ld, replies, events, clipboard, pastes, inferences,
                       resampler, overlay>>

\* await refreshModels() (list_models may fail, which it only logs), then
\* addActivity("info", ..).
refreshModels ==
    \E listed \in BOOLEAN :
        /\ app.pc = "refreshing"
        /\ app' = [addActivity(app, "info") EXCEPT
                      !.models = IF listed THEN app.modelId ELSE app.models,
                      !.pc = "finally"]
        /\ UNCHANGED <<is_recording, presses, session, cap, audio, callbacks, wk, ws,
                       ws_lock, ld, replies, events, clipboard, pastes, inferences,
                       resampler, overlay>>

\* Mutant: the catch block returns without the finally block being run.
handleLoad_catch_returns ==
    /\ app.pc = "caught"
    /\ app' = [addActivity(app, "error") EXCEPT !.pc = "idle"]
    /\ UNCHANGED <<is_recording, presses, session, cap, audio, callbacks, wk, ws,
                   ws_lock, ld, replies, events, clipboard, pastes, inferences,
                   resampler, overlay>>

\* catch (e): addActivity("error", ..).
handleLoad_catch ==
    /\ app.pc = "caught"
    /\ app' = [addActivity(app, "error") EXCEPT !.pc = "finally"]
    /\ UNCHANGED <<is_recording, presses, session, cap, audio, callbacks, wk, ws,
                   ws_lock, ld, replies, events, clipboard, pastes, inferences,
                   resampler, overlay>>

\* finally: setLoadingModel(null).
handleLoad_finally ==
    /\ app.pc = "finally"
    /\ app' = [app EXCEPT !.pc = "idle", !.loadingModel = "null"]
    /\ UNCHANGED <<is_recording, presses, session, cap, audio, callbacks, wk, ws,
                   ws_lock, ld, replies, events, clipboard, pastes, inferences,
                   resampler, overlay>>

AppNext ==
    \/ activity_event
    \/ handleLoad
    \/ load_model_reply
    \/ refreshModels
    \/ handleLoad_catch
    \/ handleLoad_finally

AppSpec == Init /\ [][AppNext]_vars

(***************************************************************************)
(* The controller state the notifications describe, read off the program:  *)
(* Capturing while is_recording is set, Transcribing while a worker thread *)
(* is between its spawn and its terminal event, Idle otherwise.            *)
(***************************************************************************)

\* The rate of the samples run_whisper_on_buffer hands to ctx.full for
\* session s: the worker passes its copy of the buffer and the function
\* passes its parameter on as it is (the resampling is a TODO comment).
JobRate(s) == CaptureRate

InFlight(s) == wk[s].pc \notin {"none", "done", "panicked"}

ControllerState ==
    IF is_recording THEN "Capturing"
    ELSE IF \E s \in Sessions : InFlight(s) THEN "Transcribing"
    ELSE "Idle"

\* A session lives from its start toggle to its terminal event.
LiveSession(s) == s <= session /\ wk[s].pc # "done"

Terminals == {"transcription_done", "transcription_error", "no_model_selected"}
Errors == {"transcription_error", "audio_error"}

EventsOf(s) == SelectSeq(events, LAMBDA e : e.sess = s)
TerminalsOf(s) == SelectSeq(events, LAMBDA e : e.sess = s /\ e.name \in Terminals)

AllFailed(rs) == \A i \in 1..Len(rs) : ~rs[i]

(***************************************************************************)
(* Properties.                                                             *)
(***************************************************************************)

StateWalk == {<<"Idle", "Capturing">>, <<"Capturing", "Transcribing">>,
              <<"Transcribing", "Idle">>}

\* C1: the controller state only steps Idle -> Capturing -> Transcribing ->
\* Idle; in particular Capturing is entered from Idle only.
C1_StateWalk ==
    [][ControllerState' # ControllerState
         => <<ControllerState, ControllerState'>> \in StateWalk]_vars

\* C2: a toggle handled while the controller is Transcribing changes neither
\* the recording flag, nor the session, nor the buffer, nor the events.
C2_ToggleDroppedWhileTranscribing ==
    [][(ControllerState = "Transcribing" /\ presses' = presses + 1)
         => /\ is_recording' = is_recording
            /\ session' = session
            /\ audio' = audio
            /\ events' = events]_vars

\* C3: at most one recording session is alive and at most one worker thread
\* is between hand-off and completion.
C3_SingleSessionSingleFlight ==
    /\ Cardinality({s \in Sessions : LiveSession(s)}) <= 1
    /\ Cardinality({s \in Sessions : InFlight(s)}) <= 1

Rank(n) ==
    CASE n = "recording_started" -> 1
      [] n = "audio_level" -> 2
      [] n = "recording_stopped" -> 3
      [] n = "transcription_started" -> 4
      [] OTHER -> 5

Follows(a, b) ==
    \/ a \in {1, 2} /\ b \in {2, 3}
    \/ a = 3 /\ b = 4
    \/ a = 4 /\ b = 5

InOrder(q) ==
    /\ Len(q) > 0 => Rank(q[1].name) = 1
    /\ \A i \in 1..(Len(q) - 1) : Follows(Rank(q[i].name), Rank(q[i + 1].name))

\* C4: the events of each session come in the order recording_started,
\* audio_level*, recording_stopped, transcription_started, one terminal event.
C4_SessionEventOrder == \A s \in Sessions : InOrder(EventsOf(s))

\* C5: no event of a session is emitted before the terminal event of the
\* session before it.
C5_SessionsDoNotOverlap ==
    \A i \in 1..Len(events) :
        events[i].sess > 1
            => \E j \in 1..(i - 1) : /\ events[j].sess = events[i].sess - 1
                                     /\ events[j].name \in Terminals

\* C6: when the capture of a session fails to start, recording_started was
\* not emitted for it, an error event was, and the controller is still Idle
\* for the next toggle.
C6_CaptureStartFailureStaysIdle ==
    \A s \in Sessions :
        cap[s] = "panicked"
            => /\ ~\E i \in 1..Len(events) :
                     events[i].sess = s /\ events[i].name = "recording_started"
               /\ \E i \in 1..Len(events) :
                     events[i].sess = s /\ events[i].name \in Errors
               /\ (session = s /\ presses = 2 * s - 1) => ~is_recording

\* C7: the step that completes a worker leaves exactly one terminal event
\* for its session, the session's buffer released and the controller Idle.
C7_CompletionReturnsToIdle ==
    [][\A s \in Sessions :
          (wk[s].pc # "done" /\ wk'[s].pc = "done")
              => /\ Len(TerminalsOf(s))' = 1
                 /\ wk'[s].buffer = <<>>
                 /\ ControllerState' = "Idle"]_vars

C10_FailedLoadKeepsModel ==
    [][/\ (Len(replies') > Len(replies) /\ ~replies'[Len(replies')]) => ws' = ws
       /\ ws.ctx # NoModel => ws'.ctx # NoModel]_vars

C10_Witness ==
    /\ replies = <<TRUE, FALSE>>
    /\ ws = [ctx |-> "base.bin", model_path |-> "base.bin"]
    /\ ld.pc = "idle"

\* C11: the command never holds a new context while a worker is inside the
\* inference, and WhisperState does not change while a worker is inside it.
C11_LoadAndTranscribeExclusive ==
    /\ [](~(ld.pc = "created" /\ \E s \in Sessions : wk[s].pc = "locked"))
    /\ [][(\E s \in Sessions : wk[s].pc = "locked") => ws' = ws]_vars

C11_Witness ==
    /\ ld.pc = "created"
    /\ ws.ctx # NoModel
    /\ \E s \in Sessions : wk[s].pc = "started"

C13_PasteIffClipboardWritten ==
    \A c \in clipboard : c.text # "" => (c.sess \in pastes <=> c.ok)

\* C14: when the clipboard write of a non-empty text fails the
\* session still ends with transcription_done carrying the text and no
\* transcription_error, the output failure is reported by an event of its
\* own, and with no other session around the controller is Idle.
C14_ClipboardFailureKeepsDone ==
    \A s \in Sessions :
        (wk[s].pc = "done" /\ \E c \in clipboard : c.sess = s /\ c.text # "" /\ ~c.ok)
            => /\ Len(TerminalsOf(s)) = 1
               /\ TerminalsOf(s)[1] = Event("transcription_done", s, wk[s].result.text)
               /\ \E i \in 1..Len(events) :
                     events[i].sess = s /\ events[i].name = "paste_error"
               /\ (presses = 2 * s /\ \A o \in Sessions \ {s} : ~InFlight(o))
                     => ControllerState = "Idle"

\* C15: a worker thread that panicked has produced transcription_error, the
\* controller is Idle again when no other session is around, and the next
\* press of the hotkey is handled.
C15_WorkerPanicIsReported ==
    \A s \in Sessions :
        wk[s].pc = "panicked"
            => /\ \E i \in 1..Len(events) :
                     events[i] = Event("transcription_error", s, "")
               /\ (presses = 2 * s /\ \A o \in Sessions \ {s} : ~InFlight(o))
                     => ControllerState = "Idle"
               /\ presses < MaxToggles => ENABLED start_hotkey_listener

\* C16: once the device of the current session has failed, with no press
\* since the session began, an error event of that session exists, its
\* capture has been given up (the controller is Idle when no other session
\* is around), and no worker was spawned and no inference run for it.
C16_DeviceErrorEndsSession ==
    \A s \in Sessions :
        (cap[s] = "failed" /\ presses = 2 * s - 1)
            => /\ \E i \in 1..Len(events) :
                     events[i].sess = s /\ events[i].name \in Errors
               /\ wk[s].pc = "none"
               /\ s \notin inferences
               /\ (\A o \in Sessions \ {s} : ~InFlight(o))
                     => ControllerState = "Idle"

\* C17: a sample is appended to the buffer only while the controller is
\* Capturing, and once a worker has read the buffer no stream is left that
\* can still write to it.
C17_BufferWrittenOnlyWhileCapturing ==
    [][/\ Len(audio'.buffer) > Len(audio.buffer) => ControllerState = "Capturing"
       /\ \A s \in Sessions :
             (wk[s].pc = "spawned" /\ wk'[s].pc = "started")
                 => \A o \in Sessions : ~StreamAlive(o)']_vars

Lifecycle ==
    {"recording_started", "recording_stopped", "transcription_started",
     "transcription_done", "transcription_error", "no_model_selected",
     "audio_level", "audio_error"}

C19_SecondaryKeyOnlyDiagnostic ==
    [][AltPresses' > AltPresses
          => /\ events' = Append(events, Event("hotkey_event", 0, "RightAlt"))
             /\ events'[Len(events')].name \notin Lifecycle
             /\ ControllerState' = ControllerState
             /\ UNCHANGED <<is_recording, presses, session, cap, audio, callbacks,
                            wk, ws, ws_lock, ld, replies, clipboard, pastes,
                            inferences, others>>]_vars

C19_Witness ==
    /\ AltPresses > 0
    /\ ControllerState = "Transcribing"
    /\ events[Len(events)].name = "hotkey_event"

\* C20: every buffer handed to the inference holds samples at 16000 Hz.
C20_JobsAre16kHz ==
    \A s \in inferences : JobRate(s) = WhisperRate

\* C21: a set_active_model that succeeds with the path that is already
\* active leaves WhisperState as it was, loaded with that path, and a worker
\* that then asks for the context is not answered with not-loaded.
C21_LoadIsIdempotent ==
    [][/\ (ld.pc = "created" /\ ld'.pc = "idle" /\ ws.model_path = ld.path)
            => (ws' = ws /\ ws'.ctx = ld.path)
       /\ \A s \in Sessions :
             (wk[s].pc = "started" /\ wk'[s].result.kind = "not_loaded")
                 => ws.model_path = NoModel]_vars

C21_Witness ==
    /\ replies = <<TRUE, TRUE>>
    /\ ws = [ctx |-> "base.bin", model_path |-> "base.bin"]
    /\ \E s \in Sessions : wk[s].pc = "locked"

\* C22: every audio_level emitted lies between 0 and full scale, and the
\* level emitted for a buffer of zeros is 0.
C22_LevelInUnitInterval ==
    /\ \A i \in 1..Len(events) :
          events[i].name = "audio_level"
              => (events[i].text >= 0 /\ events[i].text <= FullScale)
    /\ (/\ events # <<>>
        /\ events[Len(events)].name = "audio_level"
        /\ \A j \in 1..Len(audio.buffer) : audio.buffer[j] = 0)
          => events[Len(events)].text = 0

C22_Witness ==
    /\ Len(audio.buffer) = MaxLen
    /\ \A j \in 1..Len(audio.buffer) : audio.buffer[j] \in {0 - FullScale, FullScale}
    /\ \E j \in 1..Len(audio.buffer) : audio.buffer[j] = 0 - FullScale
    /\ events[Len(events)] = Event("audio_level", 1, FullScale)

\* C23: resample returns round(n * 16000 / r) samples for an input of n
\* samples at rate r (round(n / 3) for r = 48000), and an empty sequence
\* for an empty input.
C23_ResampleLength ==
    (resampler.pc = "returned" /\ resampler.target = WhisperRate)
        => /\ 2 * resampler.rate * Len(resampler.out)
                  <= 2 * Len(resampler.samples) * WhisperRate + resampler.rate
           /\ 2 * resampler.rate * Len(resampler.out)
                  > 2 * Len(resampler.samples) * WhisperRate - resampler.rate
           /\ resampler.rate = 48000
                  => Len(resampler.out) = (2 * Len(resampler.samples) + 3) \div 6
           /\ resampler.samples = <<>> => resampler.out = <<>>

C23_Witness ==
    /\ resampler.pc = "returned"
    /\ resampler.rate = 48000
    /\ resampler.target = WhisperRate
    /\ Len(resampler.samples) = 2
    /\ Len(resampler.out) = 1

\* C24: resample to the source rate returns the input unchanged.
C24_ResampleIdentity ==
    (resampler.pc = "returned" /\ resampler.target = resampler.rate)
        => resampler.out = resampler.samples

C24_Witness ==
    /\ resampler.pc = "returned"
    /\ resampler.target = resampler.rate
    /\ resampler.rate # WhisperRate
    /\ Len(resampler.out) = MaxLen
    /\ resampler.out[1] # resampler.out[2]

\* C25: the overlay's state is the one its last state-changing event sets
\* (recording_started: recording, transcription_started: transcribing,
\* transcription_done: idle, transcription_error: error, no_model_selected:
\* no_model); recording_stopped changes nothing, and with no such event
\* the state is recording.
StateOf(n) ==
    CASE n = "recording_started" -> "recording"
      [] n = "transcription_started" -> "transcribing"
      [] n = "transcription_done" -> "idle"
      [] n = "transcription_error" -> "error"
      [] n = "no_model_selected" -> "no_model"

StateChanging ==
    {"recording_started", "transcription_started", "transcription_done",
     "transcription_error", "no_model_selected"}

C25_OverlayFollowsLastEvent ==
    LET idx == {i \in 1..Len(events) : events[i].name \in StateChanging}
    IN  IF idx = {} THEN overlay.state = "recording"
        ELSE LET last == CHOOSE i \in idx : \A j \in idx : j <= i
             IN  overlay.state = StateOf(events[last].name)

C25_Witness ==
    /\ Len(events) = MaxDeliveries
    /\ events[1].name = "transcription_error"
    /\ events[2].name = "recording_started"
    /\ events[3].name = "recording_stopped"
    /\ overlay.state = "recording"

\* C26: with every notification delivered to the overlay in emission order,
\* the overlay shows idle, error or no_model whenever the controller is Idle
\* after a session, and it does not show recording or transcribing for a
\* session whose capture failed to start or whose device failed, no key
\* having been pressed since.
C26_OverlayNotLeftBusy ==
    LET shown == OverlayAfter(events).state
    IN  /\ (ControllerState = "Idle" /\ session > 0)
              => shown \in {"idle", "error", "no_model"}
        /\ \A s \in Sessions :
              (cap[s] \in {"panicked", "failed"} /\ presses = 2 * s - 1)
                  => shown \notin {"recording", "transcribing"}

\* C28: when the window's listener receives the event the global listener
\* has just handled, the overlay's state and error message stay as they are.
C28_SecondDeliveryChangesNothing ==
    [][(overlay.pending # NoEvent /\ overlay'.pending = NoEvent)
          => /\ overlay'.state = overlay.state
             /\ overlay'.errorMessage = overlay.errorMessage]_vars

C28_Witness ==
    /\ Len(events) = 2
    /\ events[1] = Event("transcription_error", 0, "failed")
    /\ events[2] = Event("transcription_error", 0, "timeout")
    /\ overlay = [state |-> "error", errorMessage |-> "timeout", pending |-> NoEvent]

\* C27: with no other session around, the shared buffer is empty when a
\* session starts, and the samples a worker takes for its session all come
\* from that session's stream.
C27_SessionBufferIsItsOwn ==
    [][/\ (session' = session + 1 /\ \A s \in Sessions : ~InFlight(s))
            => audio.buffer = <<>>
       /\ \A s \in Sessions :
             (wk[s].pc = "spawned" /\ wk'[s].pc = "started" /\ session = s)
                 => \A i \in 1..Len(wk'[s].buffer) : wk'[s].buffer[i] = s]_vars

\* C29: the activity list never holds more than 50 entries, it is ordered
\* newest first, every call puts an entry with the counter's next value in
\* front, and what is dropped from a full list is its last, oldest, entry.
C29_ActivityListBounded ==
    /\ [](/\ Len(app.activities) <= Kept + 1
          /\ \A i \in 1..(Len(app.activities) - 1) :
                app.activities[i].id > app.activities[i + 1].id)
    /\ [][app'.activityId # app.activityId
            => /\ app'.activityId = app.activityId + 1
               /\ app'.activities[1].id = app.activityId + 1
               /\ Len(app'.activities) = Min(Len(app.activities) + 1, Kept + 1)
               /\ SubSeq(app'.activities, 2, Len(app'.activities))
                     = SubSeq(app.activities, 1, Len(app'.activities) - 1)]_vars

C29_Witness ==
    /\ app.activityId = Kept + 3
    /\ Len(app.activities) = Kept + 1
    /\ app.activities[1].id = Kept + 3
    /\ app.activities[Kept + 1].id = 3
    /\ \E i \in 1..Len(app.activities) : app.activities[i].type = "error"

\* C30: whenever no handleLoad is in progress loadingModel is null, and a
\* handleLoad whose command failed ends with loadingModel null and the
\* model shown as active the one shown before the call.
C30_LoadingModelIsReset ==
    /\ [](app.pc = "idle" => app.loadingModel = "null")
    /\ [][(app.pc = "caught" \/ app'.pc = "caught")
             => app'.models = app.before]_vars
    /\ [][(app.pc # "idle" /\ app'.pc = "idle")
             => (app'.loadingModel = "null"
                 /\ (app.activities[1].type = "error" => app'.models = app.before))]_vars

C30_Witness ==
    /\ app.loads = MaxLoads
    /\ app.pc = "idle"
    /\ app.loadingModel = "null"
    /\ app.models = "base.bin"
    /\ app.modelId = "missing.bin"
    /\ app.activities[1].type = "error"

====
